---- MODULE Spec2Model ----
(***************************************************************************)
(* A model of scripts/AutocalibrationSolver.py: the AutocalibrationSolver  *)
(* object (its fields, the aliasing of its arrays), the methods stageOne,  *)
(* stageTwo and estimationError, and the static helpers coordinatesOpt and *)
(* costOpt, with the values main() of scripts/autocalibration_solver.py    *)
(* passes to the constructor.                                              *)
(*                                                                         *)
(* Numbers.  The program computes in float64.  The model computes in exact *)
(* rationals <<n, d>> (d > 0, lowest terms) as long as numerator and       *)
(* denominator stay within Cap; a result outside that range is NaR, which  *)
(* every later operation propagates and every comparison answers FALSE     *)
(* for, the way the program's floats carry nan.  Indices are 0-based as in *)
(* the source.                                                             *)
(***************************************************************************)
EXTENDS Integers, Sequences, FiniteSets, TLC

\* ------------------------------------------------------------------ bounds
\* number of anchors (samples_ijk.shape[0])
N == 3
\* number of samples per pair (samples_ijk.shape[1])
M == 3
\* the max_iters the solver is constructed with
MaxIters == 2
\* function evaluations the direct search may spend
MaxEvals == 2
\* largest numerator / denominator of a representable number
Cap == 1000000000

Anchors == 0 .. (N - 1)
Samples == 0 .. (M - 1)
Axes    == 0 .. 2

\* ----------------------------------------------------------------- numbers
NaR == <<0, 0>>

Abs(x) == IF x < 0 THEN -x ELSE x

RECURSIVE Gcd(_, _)
Gcd(a, b) == IF b = 0 THEN a ELSE Gcd(b, a % b)

\* a * b stays within Cap
Fits(a, b) == b = 0 \/ Abs(a) <= Cap \div Abs(b)

IsNum(a) == a[2] # 0

\* n / d (d > 0) in lowest terms
Reduce(n, d) ==
  LET g == Gcd(Abs(n), d)
      p == n \div g
      q == d \div g
  IN  IF Abs(p) > Cap \/ q > Cap THEN NaR ELSE <<p, q>>

R(n) == <<n, 1>>

RNeg(a) == <<-a[1], a[2]>>

RAdd(a, b) ==
  IF ~IsNum(a) \/ ~IsNum(b) THEN NaR
  ELSE IF a[2] = 1 /\ b[2] = 1
    THEN IF Abs(a[1] + b[1]) > Cap THEN NaR ELSE <<a[1] + b[1], 1>>
  ELSE LET g == Gcd(a[2], b[2])
           p == b[2] \div g
           q == a[2] \div g
       IN  IF Fits(a[1], p) /\ Fits(b[1], q) /\ Fits(a[2], p)
           THEN Reduce(a[1] * p + b[1] * q, a[2] * p)
           ELSE NaR

RSub(a, b) == RAdd(a, RNeg(b))

RMul(a, b) ==
  IF ~IsNum(a) \/ ~IsNum(b) THEN NaR
  ELSE IF a[2] = 1 /\ b[2] = 1
    THEN IF Fits(a[1], b[1]) THEN <<a[1] * b[1], 1>> ELSE NaR
  ELSE LET g1 == Gcd(Abs(a[1]), b[2])
           g2 == Gcd(Abs(b[1]), a[2])
           n1 == a[1] \div g1
           d2 == b[2] \div g1
           n2 == b[1] \div g2
           d1 == a[2] \div g2
       IN  IF Fits(n1, n2) /\ Fits(d1, d2)
           THEN Reduce(n1 * n2, d1 * d2)
           ELSE NaR

RDiv(a, b) ==
  IF ~IsNum(a) \/ ~IsNum(b) \/ b[1] = 0 THEN NaR
  ELSE RMul(a, IF b[1] > 0 THEN <<b[2], b[1]>> ELSE <<-b[2], -b[1]>>)

RSq(a) == RMul(a, a)

\* n/d < p/q for d, q > 0, by comparing the continued fractions: no product
RECURSIVE FracLt(_, _, _, _)
FracLt(n, d, p, q) ==
  LET a == n \div d
      b == p \div q
      r == n % d
      s == p % q
  IN  IF a # b THEN a < b
      ELSE IF s = 0 THEN FALSE
      ELSE IF r = 0 THEN TRUE
      ELSE FracLt(q, s, d, r)

\* comparisons: FALSE when an operand is NaR
RLt(a, b) == IsNum(a) /\ IsNum(b) /\ FracLt(a[1], a[2], b[1], b[2])
RLe(a, b) == IsNum(a) /\ IsNum(b) /\ ~FracLt(b[1], b[2], a[1], a[2])
RGt(a, b) == RLt(b, a)
RGe(a, b) == RLe(b, a)

\* the sum of the numbers f[x], x in 0 .. n-1 (np.sum, np.einsum)
RECURSIVE SumTo(_, _)
SumTo(f, n) == IF n = 0 THEN R(0) ELSE RAdd(SumTo(f, n - 1), f[n - 1])

\* the sum of the numbers of a sequence
RECURSIVE SumSeq(_)
SumSeq(s) == IF s = <<>> THEN R(0) ELSE RAdd(SumSeq(Tail(s)), Head(s))

\* np.sum(c**2) of one coordinate row
SqNorm(c) == SumTo([d \in Axes |-> RSq(c[d])], 3)

\* sum over the axes of (a - b)**2 for two coordinate rows
SqDist(a, b) == SumTo([d \in Axes |-> RSq(RSub(a[d], b[d]))], 3)

\* --------------------------------------------------------- coordinatesOpt
\* Lists the program builds with append are sequences: the program's row i
\* (0-based) is element i + 1.

\* the symmetric matrix A^T A of a K x 3 matrix given as a sequence of rows
Gram(A) ==
  [i \in Axes |-> [j \in Axes |->
     SumSeq([r \in 1 .. Len(A) |-> RMul(A[r][i], A[r][j])])]]

\* the vector A^T b
Atb(A, b) ==
  [i \in Axes |-> SumSeq([r \in 1 .. Len(A) |-> RMul(A[r][i], b[r])])]

\* the 2 x 2 minor of G on rows i, j and columns k, l
Minor(G, i, j, k, l) ==
  RSub(RMul(G[i][k], G[j][l]), RMul(G[i][l], G[j][k]))

\* the two indices of Axes other than i, in increasing order
Others(i) == IF i = 0 THEN <<1, 2>> ELSE IF i = 1 THEN <<0, 2>> ELSE <<0, 1>>

\* entry (i, j) of the adjugate of a 3 x 3 matrix
Adj(G, i, j) ==
  LET rw == Others(j)
      cl == Others(i)
      mn == Minor(G, rw[1], rw[2], cl[1], cl[2])
  IN  IF (i + j) % 2 = 0 THEN mn ELSE RNeg(mn)

\* np.dot(np.linalg.pinv(A), b): the least-squares solution of A x = b of
\* least norm.  With G = A^T A (positive semidefinite, eigenvalues
\* l1 >= l2 >= l3 >= 0), c = A^T b (in the range of G), e1 = trace G,
\* e2 = sum of the principal 2 x 2 minors and e3 = det G:
\*   rank 3:  x = adj(G) c / e3
\*   rank 2:  x = (e1 I - G) c / e2
\*   rank 1:  x = c / e1
\*   rank 0:  x = 0  (also the empty A)
\* a vector of three numbers as an explicit array
Vec(f) == (0 :> f[0]) @@ (1 :> f[1]) @@ (2 :> f[2])
ZeroVec == Vec([d \in Axes |-> R(0)])
NaRVec  == Vec([d \in Axes |-> NaR])

PinvDot(A, b) ==
  LET G  == Gram(A)
      c  == Vec(Atb(A, b))
      e1 == RAdd(RAdd(G[0][0], G[1][1]), G[2][2])
      e2 == RAdd(RAdd(Minor(G, 0, 1, 0, 1), Minor(G, 0, 2, 0, 2)),
                 Minor(G, 1, 2, 1, 2))
      e3 == RAdd(RSub(RMul(G[0][0], Minor(G, 1, 2, 1, 2)),
                      RMul(G[0][1], Minor(G, 1, 2, 0, 2))),
                 RMul(G[0][2], Minor(G, 1, 2, 0, 1)))
  IN  IF ~IsNum(e1) \/ ~IsNum(e2) \/ ~IsNum(e3) THEN NaRVec
      ELSE IF e3[1] # 0
        THEN Vec([i \in Axes |->
               RDiv(SumTo([j \in Axes |-> RMul(Adj(G, i, j), c[j])], 3), e3)])
      ELSE IF e2[1] # 0
        THEN Vec([i \in Axes |->
               RDiv(RSub(RMul(e1, c[i]),
                         SumTo([j \in Axes |-> RMul(G[i][j], c[j])], 3)), e2)])
      ELSE IF e1[1] # 0
        THEN Vec([i \in Axes |-> RDiv(c[i], e1)])
      ELSE ZeroVec

\* the matrix A of coordinatesOpt: row i = 2 * coords[last] - 2 * coords[i],
\* the last row removed
BuildA(anchors_coords) ==
  LET K == Len(anchors_coords)
  IN  [r \in 1 .. (K - 1) |-> [d \in Axes |->
        RSub(RMul(R(2), anchors_coords[K][d]), RMul(R(2), anchors_coords[r][d]))]]

\* the vector B of coordinatesOpt
BuildB(anchors_coords, ranges) ==
  LET K == Len(anchors_coords)
  IN  [r \in 1 .. (K - 1) |->
        RAdd(RSub(RSub(RSq(ranges[r]), RSq(ranges[K])), SqNorm(anchors_coords[r])),
             SqNorm(anchors_coords[K]))]

\* AutocalibrationSolver.coordinatesOpt, for K >= 1 rows
coordinatesOpt(anchors_coords, ranges) ==
  PinvDot(BuildA(anchors_coords), BuildB(anchors_coords, ranges))

\* ------------------------------------------------------------ aggregation
\* a sequence of numbers in ascending order (np.sort inside np.median and
\* np.percentile)
RECURSIVE Insert(_, _)
Insert(x, s) ==
  IF s = <<>> THEN <<x>>
  ELSE IF RLe(x, Head(s)) THEN <<x>> \o s
  ELSE <<Head(s)>> \o Insert(x, Tail(s))

RECURSIVE Sort(_)
Sort(s) == IF s = <<>> THEN <<>> ELSE Insert(Head(s), Sort(Tail(s)))

\* the values of sequence s that are > 0, in order: samples[samples > 0]
RECURSIVE Positive(_)
Positive(s) ==
  IF s = <<>> THEN <<>>
  ELSE IF RGt(Head(s), R(0)) THEN <<Head(s)>> \o Positive(Tail(s))
  ELSE Positive(Tail(s))

\* np.median of a non-empty sequence
Median(s) ==
  LET a == Sort(s)
      n == Len(a)
  IN  IF n % 2 = 1 THEN a[(n \div 2) + 1]
      ELSE RDiv(RAdd(a[n \div 2], a[(n \div 2) + 1]), R(2))

\* the samples of pair (i, k) along the sample axis: samples_ijk[i, :, k]
PairSamples(cube, i, k) ==
  [m \in 1 .. Cardinality(DOMAIN cube[i]) |-> cube[i][m - 1][k]]

\* the median matrix of stageOne and stageTwo (sample_idx is None)
MedianMatrix(cube) ==
  [i \in DOMAIN cube |-> [k \in DOMAIN cube |->
     LET samples == Positive(PairSamples(cube, i, k))
     IN  IF Len(samples) > 0 THEN Median(samples) ELSE R(-1)]]

\* np.copy(samples_ijk[:, sample_idx, :])
Slice(cube, m) == [i \in DOMAIN cube |-> [k \in DOMAIN cube |-> cube[i][m][k]]]

\* np.percentile(s, q) of a non-empty sequence, q on numpy's scale of 0 to
\* 100, linear interpolation between the two nearest ranks
Percentile(s, q) ==
  LET a    == Sort(s)
      n    == Len(a)
      v    == RMul(RDiv(q, R(100)), R(n - 1))
      lo   == v[1] \div v[2]
      hi   == IF lo + 1 > n - 1 THEN n - 1 ELSE lo + 1
      frac == RSub(v, R(lo))
  IN  RAdd(a[lo + 1], RMul(frac, RSub(a[hi + 1], a[lo + 1])))

\* the matrix stageTwo filters for sample m: a value outside
\* [percentile(lower), percentile(upper)] of its pair becomes -1
FilteredSlice(cube, m, lower, upper) ==
  [i \in DOMAIN cube |-> [k \in DOMAIN cube |->
     LET value == cube[i][m][k]
         lower_bound == Percentile(PairSamples(cube, i, k), lower)
         upper_bound == Percentile(PairSamples(cube, i, k), upper)
     IN  IF RLe(value, upper_bound) /\ RGe(value, lower_bound)
         THEN value ELSE R(-1)]]

\* ---------------------------------------------------------------- stage 1
\* the anchors k stageOne gathers for anchor i, in index order: every k
\* whose entry is not < 0
RECURSIVE GatherFrom(_, _, _)
GatherFrom(S, i, k) ==
  IF k = Cardinality(DOMAIN S) THEN <<>>
  ELSE IF RLt(S[i][k], R(0)) THEN GatherFrom(S, i, k + 1)
  ELSE <<k>> \o GatherFrom(S, i, k + 1)

Gather(S, i) == GatherFrom(S, i, 0)

\* a faulty variant of GatherSource, a Jacobi update: the gathered
\* coordinates are read from the pass snapshot
GatherSourceJacobi(current, old) == old

\* the coordinates stageOne reads for the gathered anchors
GatherSource(current, old) == current

\* a faulty variant of AnchorStep: the loop over the anchors without
\* "don't update fixed anchor"
AnchorStepNoSkip(coords, old, S, fixed, min_anchors, i) ==
  LET ks  == Gather(S, i)
      cs  == [p \in 1 .. Len(ks) |-> coords[ks[p]]]
      rs  == [p \in 1 .. Len(ks) |-> S[i][ks[p]]]
  IN  IF Len(ks) >= min_anchors
      THEN [coords EXCEPT ![i] = coordinatesOpt(cs, rs)]
      ELSE coords

\* one iteration of the loop over the anchors: the estimate after anchor i
\* was handled, given the current estimate and the pass snapshot
AnchorStep(coords, old, S, fixed, min_anchors, i) ==
  IF fixed[i] THEN coords
  ELSE LET ks  == Gather(S, i)
           src == GatherSource(coords, old)
           cs  == [p \in 1 .. Len(ks) |-> src[ks[p]]]
           rs  == [p \in 1 .. Len(ks) |-> S[i][ks[p]]]
       IN  IF Len(ks) >= min_anchors
           THEN [coords EXCEPT ![i] = coordinatesOpt(cs, rs)]
           ELSE coords

\* the squared norm of (coords - old) over all N x 3 values
DiffSq(coords, old) ==
  SumTo([i \in DOMAIN coords |-> SqDist(coords[i], old[i])],
        Cardinality(DOMAIN coords))

\* np.abs(np.linalg.norm(coords - old)) < thresh, for thresh > 0
NormBelow(coords, old, thresh) == RLt(DiffSq(coords, old), RSq(thresh))

\* ---------------------------------------------------------------- stage 2
\* anchors_coords.T.reshape(-1, 3): the transpose read in row-major order,
\* three values per row
TReshape(coords) ==
  LET n == Cardinality(DOMAIN coords)
  IN  [r \in DOMAIN coords |-> [c \in Axes |->
        coords[(3 * r + c) % n][(3 * r + c) \div n]]]

\* Theta[fixed_anchors] = Theta_init[fixed_anchors]
Pin(Theta, init, fixed) ==
  [i \in DOMAIN Theta |-> IF fixed[i] THEN init[i] ELSE Theta[i]]

\* one entry of cost_ij after the two maskings
CostTerm(Theta, ranges, i, j) ==
  LET dist == SqDist(Theta[i], Theta[j])
  IN  IF RLt(ranges[i][j], R(0)) THEN R(0)
      ELSE IF dist = R(0) THEN R(0)
      ELSE RSq(RSub(dist, RSq(ranges[i][j])))

\* the value _my_opt_func returns for the pinned Theta
Cost(Theta, ranges) ==
  LET n == Cardinality(DOMAIN Theta)
  IN  SumTo([i \in DOMAIN Theta |->
              SumTo([j \in DOMAIN Theta |-> CostTerm(Theta, ranges, i, j)], n)], n)

\* --------------------------------------------------------- estimationError
\* a non-negative real given by its square: np.sqrt(q)
Sqrt(q) == [radicand |-> q]

\* the ndarray estimationError returns: its shape and its values
ErrorAxis(coords, gt, axis) ==
  [shape |-> <<Cardinality(DOMAIN coords)>>,
   val   |-> [i \in DOMAIN coords |-> RSub(coords[i][axis], gt[i][axis])]]

ErrorNorm(coords, gt) ==
  [shape |-> <<Cardinality(DOMAIN coords), Cardinality(DOMAIN gt)>>,
   val   |-> [i \in DOMAIN coords |-> [j \in DOMAIN gt |->
               Sqrt(SqDist(coords[i], gt[j]))]]]

\* ------------------------------------------------------------------ inputs
\* Python's None, and an optional integer argument v given as <<v>>
None == <<>>
Some(v) == <<v>>

\* the constructor's defaults (max_iters is MaxIters in the model)
DefaultMinAnchors == 4
convergence_thresh == <<1, 100>>
max_iters == MaxIters
DefaultPercentiles == [lower |-> <<1, 4>>, upper |-> <<3, 4>>]
\* the percentiles main() constructs the solver with
MainPercentiles == [lower |-> <<1, 10>>, upper |-> <<9, 10>>]

\* initial guesses: anchor 0 at the origin and anchor i at distance 2 on
\* axis (i - 1) mod 3; or anchor i at (i, 0, 0)
GuessSpread ==
  [i \in Anchors |-> [d \in Axes |->
     IF i > 0 /\ d = (i - 1) % 3 THEN R(2) ELSE R(0)]]
GuessLine == [i \in Anchors |-> [d \in Axes |-> IF d = 0 THEN R(i) ELSE R(0)]]
Guesses == {GuessSpread, GuessLine}

\* sample cubes: pair (i, k), i < k, measures 2 + (i + k) mod 2 plus the
\* sample index, pair (i, k), i > k, measures 2 + (i + k) mod 2 in every
\* sample; the last sample of pair (0, N-1) is an outlier of three times
\* the range, sample 0 of pair (N-1, 0) is missing; the self entries are
\* all 0 or all -1
BaseRange(i, k) == 2 + ((i + k) % 2)
CubeEntry(self, i, m, k) ==
  IF i = k THEN self
  ELSE IF i = N - 1 /\ k = 0 /\ m = 0 THEN R(-1)
  ELSE IF i = 0 /\ k = N - 1 /\ m = M - 1 THEN R(3 * BaseRange(i, k))
  ELSE IF i < k THEN R(BaseRange(i, k) + m)
  ELSE R(BaseRange(i, k))
Cube(self) ==
  [i \in Anchors |-> [m \in Samples |-> [k \in Anchors |-> CubeEntry(self, i, m, k)]]]
Cubes == {Cube(R(0)), Cube(R(-1))}

\* ground truths estimationError is called with
GroundTruths == {GuessSpread, [i \in Anchors |-> [d \in Axes |-> R(1)]]}

\* LSq_min_anchors: the default, and a threshold a network of three anchors
\* can meet
MinAnchorsChoices == {2, DefaultMinAnchors}

SampleIdx == {None} \cup {Some(m) : m \in Samples}
AxisArg   == {None} \cup {Some(a) : a \in Axes}

\* ------------------------------------------------------------------- state
VARIABLES
  \* the solver's fields
  samples_ijk, initial_guess, autocalibrated_coords, fixed_anchors,
  LSq_min_anchors, percentiles,
  \* autocalibrated_coords and initial_guess are one array object
  aliased,
  \* where the solver stands ("idle": no call in progress; "done": a call
  \* has just returned ret), and the running method's sample_idx
  pc, sample_idx,
  \* stageOne's locals: the range matrix, the pass snapshot, the number of
  \* passes begun, the anchor index, and the lists gathered for the last
  \* anchor handled (with the anchors they came from)
  samples_ik, anchors_coords_old, iter, i, nbr_coords, nbr_ranges, nbr_idx,
  \* costOpt's locals: the range matrix, Theta_init, the Theta and the cost
  \* of the last evaluation, the optimizer's best point and its cost, the
  \* evaluations spent
  ranges_ik, Theta_init, Theta, cost, sim, fsim, evals,
  \* the value the last call returned
  ret,
  \* history: the constructor's arguments; the call in progress or just
  \* returned (dirty, until the first pass begins: the estimate differed
  \* from the initial guess when stageOne was called); what the current pass
  \* wrote; what the last step over an anchor did
  ctor, call, written, step

vars == <<samples_ijk, initial_guess, autocalibrated_coords, fixed_anchors,
          LSq_min_anchors, percentiles, aliased, pc, sample_idx,
          samples_ik, anchors_coords_old, iter, i, nbr_coords, nbr_ranges,
          nbr_idx, ranges_ik, Theta_init, Theta, cost, sim, fsim, evals,
          ret, ctor, call, written, step>>

fields == <<samples_ijk, fixed_anchors, LSq_min_anchors, percentiles>>
s1vars == <<samples_ik, anchors_coords_old, iter, i, nbr_coords, nbr_ranges,
            nbr_idx, written, step>>
s2vars == <<ranges_ik, Theta_init, Theta, cost, sim, fsim, evals>>

NoStep == [anchor |-> None, skipped |-> FALSE, solved |-> FALSE]
NoCall == [op |-> "none", j |-> None, gt |-> None, axis |-> None,
           dirty |-> FALSE]

S1Cleared ==
  /\ samples_ik' = None /\ anchors_coords_old' = None /\ iter' = 0 /\ i' = 0
  /\ nbr_coords' = None /\ nbr_ranges' = None /\ nbr_idx' = None
  /\ written' = None /\ step' = NoStep

S2Cleared ==
  /\ ranges_ik' = None /\ Theta_init' = None /\ Theta' = None /\ cost' = None
  /\ sim' = None /\ fsim' = None /\ evals' = 0

\* __init__, with the arguments left open
Constructed ==
  /\ autocalibrated_coords = initial_guess
  /\ aliased = TRUE
  /\ pc = "idle" /\ sample_idx = None
  /\ samples_ik = None /\ anchors_coords_old = None /\ iter = 0 /\ i = 0
  /\ nbr_coords = None /\ nbr_ranges = None /\ nbr_idx = None
  /\ written = None /\ step = NoStep
  /\ ranges_ik = None /\ Theta_init = None /\ Theta = None /\ cost = None
  /\ sim = None /\ fsim = None /\ evals = 0
  /\ ret = None
  /\ ctor = [samples |-> samples_ijk, guess |-> initial_guess,
             fixed |-> fixed_anchors]
  /\ call = NoCall

\* a solver constructed with the default percentiles
Init ==
  /\ samples_ijk \in Cubes
  /\ initial_guess \in Guesses
  /\ fixed_anchors \in [Anchors -> BOOLEAN]
  /\ LSq_min_anchors \in MinAnchorsChoices
  /\ percentiles = DefaultPercentiles
  /\ Constructed

\* a solver constructed with the default percentiles or with those of main()
InitWide ==
  /\ samples_ijk \in Cubes
  /\ initial_guess \in Guesses
  /\ fixed_anchors \in [Anchors -> BOOLEAN]
  /\ LSq_min_anchors \in MinAnchorsChoices
  /\ percentiles \in {DefaultPercentiles, MainPercentiles}
  /\ Constructed

\* an in-place write of row r of autocalibrated_coords: the write shows in
\* initial_guess too while the two are one object
WriteCoords(new) ==
  /\ autocalibrated_coords' = new
  /\ initial_guess' = IF aliased THEN new ELSE initial_guess
  /\ UNCHANGED aliased

\* a faulty variant of StartCoords: stageOne goes on from the estimate the
\* last run left
StartCoordsStale(guess, current) == current

\* the array stageOne starts from: np.copy(self.initial_guess)
StartCoords(guess, current) == guess

\* the range matrix of stageOne
StageOneMatrix(cube, j) ==
  IF j = None THEN MedianMatrix(cube) ELSE Slice(cube, j[1])

\* stageOne, to the top of its loop
StageOneCall(j) ==
  /\ pc = "idle"
  /\ autocalibrated_coords' = StartCoords(initial_guess, autocalibrated_coords)
  /\ aliased' = FALSE
  /\ samples_ik' = StageOneMatrix(samples_ijk, j)
  /\ sample_idx' = j
  /\ iter' = 0
  /\ pc' = "s1_loop"
  /\ ret' = None
  /\ call' = [op |-> "stageOne", j |-> j, gt |-> None, axis |-> None,
              dirty |-> autocalibrated_coords # initial_guess]
  /\ UNCHANGED <<initial_guess, fields, ctor, anchors_coords_old, i,
                 nbr_coords, nbr_ranges, nbr_idx, written, step, s2vars>>

\* for _ in range(self.max_iters): the next pass begins with the snapshot
S1PassBegin ==
  /\ pc = "s1_loop"
  /\ iter < max_iters
  /\ anchors_coords_old' = autocalibrated_coords
  /\ iter' = iter + 1
  /\ i' = 0
  /\ written' = [k \in {} |-> None]
  /\ step' = NoStep
  /\ pc' = "s1_anchor"
  /\ call' = [call EXCEPT !.dirty = FALSE]
  /\ UNCHANGED <<initial_guess, autocalibrated_coords, aliased, fields, ctor,
                 sample_idx, samples_ik, nbr_coords, nbr_ranges,
                 nbr_idx, ret, s2vars>>

\* the loop ran max_iters passes: stageOne returns
S1LoopExit ==
  /\ pc = "s1_loop"
  /\ iter >= max_iters
  /\ pc' = "done"
  /\ ret' = None
  /\ sample_idx' = None
  /\ S1Cleared
  /\ UNCHANGED <<initial_guess, autocalibrated_coords, aliased, fields, ctor,
                 call, s2vars>>

\* the body of "for i in range(n_anchors)" for anchor i
S1Anchor ==
  /\ pc = "s1_anchor"
  /\ i < N
  /\ LET new == AnchorStep(autocalibrated_coords, anchors_coords_old,
                           samples_ik, fixed_anchors, LSq_min_anchors, i)
         ks  == Gather(samples_ik, i)
         src == GatherSource(autocalibrated_coords, anchors_coords_old)
         solved == ~fixed_anchors[i] /\ Len(ks) >= LSq_min_anchors
     IN  /\ WriteCoords(new)
         /\ IF fixed_anchors[i]
            THEN UNCHANGED <<nbr_coords, nbr_ranges, nbr_idx>>
            ELSE /\ nbr_coords' = [p \in 1 .. Len(ks) |-> src[ks[p]]]
                 /\ nbr_ranges' = [p \in 1 .. Len(ks) |-> samples_ik[i][ks[p]]]
                 /\ nbr_idx' = ks
         /\ written' = IF solved
                       THEN [k \in DOMAIN written \cup {i} |->
                              IF k = i THEN new[i] ELSE written[k]]
                       ELSE written
         /\ step' = [anchor |-> Some(i), skipped |-> fixed_anchors[i],
                     solved |-> solved]
  /\ i' = i + 1
  /\ UNCHANGED <<pc, fields, ctor, call, sample_idx, samples_ik,
                 anchors_coords_old, iter, ret, s2vars>>

\* the termination criterion after the loop over the anchors
S1Test ==
  /\ pc = "s1_anchor"
  /\ i = N
  /\ IF NormBelow(autocalibrated_coords, anchors_coords_old, convergence_thresh)
     THEN /\ pc' = "done"
          /\ ret' = None
          /\ sample_idx' = None
          /\ S1Cleared
     ELSE /\ pc' = "s1_loop"
          /\ UNCHANGED <<ret, sample_idx, s1vars>>
  /\ UNCHANGED <<initial_guess, autocalibrated_coords, aliased, fields, ctor,
                 call, s2vars>>

\* ----------------------------------------------------------------- stageTwo
\* the range matrix stageTwo hands to costOpt
StageTwoMatrix(cube, j, pct) ==
  IF j = None THEN MedianMatrix(cube)
  ELSE FilteredSlice(cube, j[1], pct.lower, pct.upper)

\* stageTwo up to the call of fmin inside costOpt.  costOpt's anchors_coords
\* is TReshape of the solver's estimate and Theta_init a copy of it; verbose
\* is False, so _my_opt_func is not called outside fmin.
StageTwoCall(j) ==
  /\ pc = "idle"
  /\ sample_idx' = j
  /\ ranges_ik' = StageTwoMatrix(samples_ijk, j, percentiles)
  /\ Theta_init' = TReshape(autocalibrated_coords)
  /\ Theta' = None /\ cost' = None /\ sim' = None /\ fsim' = None
  /\ evals' = 0
  /\ pc' = "s2_fmin"
  /\ ret' = None
  /\ call' = [op |-> "stageTwo", j |-> j, gt |-> None, axis |-> None,
              dirty |-> FALSE]
  /\ UNCHANGED <<initial_guess, autocalibrated_coords, aliased, fields, ctor,
                 s1vars>>

\* The direct search (scipy.optimize.fmin, not part of the repository) is
\* modelled by the start of its run: it evaluates the start point x0, then
\* the vertices of its first simplex in order, vertex k being x0 with its
\* k-th value (row (k-1) div 3, axis (k-1) mod 3) moved by one unit; it
\* keeps the best point and may stop after any evaluation.
SimplexVertex(x0, k) ==
  IF k = 0 THEN x0
  ELSE [x0 EXCEPT ![(k - 1) \div 3][(k - 1) % 3] = RAdd(@, R(1))]

\* fmin evaluates _my_opt_func at its next point x (it passes a copy): the
\* function overwrites the fixed rows and returns the cost; fmin keeps the
\* point if it is the first or better than its best
S2Eval ==
  /\ pc = "s2_fmin"
  /\ evals < MaxEvals
  /\ evals <= 3 * N
  /\ LET x      == SimplexVertex(Theta_init, evals)
         pinned == Pin(x, Theta_init, fixed_anchors)
         value  == Cost(pinned, ranges_ik)
         better == evals = 0 \/ RLt(value, fsim)
     IN  /\ Theta' = pinned
         /\ cost' = value
         /\ sim' = IF better THEN x ELSE sim
         /\ fsim' = IF better THEN value ELSE fsim
  /\ evals' = evals + 1
  /\ UNCHANGED <<initial_guess, autocalibrated_coords, aliased, fields, ctor,
                 call, pc, sample_idx, ranges_ik, Theta_init, ret, s1vars>>

\* what stageTwo does with the array costOpt returns: it returns it
StoredAfterStageTwo(stored, Theta_opt) == stored

\* fmin stops (converged or out of budget) and costOpt returns its best
\* point with the fixed rows overwritten once more; stageTwo returns it
S2Return ==
  /\ pc = "s2_fmin"
  /\ evals >= 1
  /\ LET Theta_opt == Pin(sim, Theta_init, fixed_anchors)
     IN  /\ ret' = Theta_opt
         /\ WriteCoords(StoredAfterStageTwo(autocalibrated_coords, Theta_opt))
  /\ pc' = "done"
  /\ sample_idx' = None
  /\ S2Cleared
  /\ UNCHANGED <<fields, ctor, call, s1vars>>

\* ----------------------------------------------------------- estimationError
EstimationError(gt, axis) ==
  /\ pc = "idle"
  /\ ret' = IF axis = None THEN ErrorNorm(autocalibrated_coords, gt)
            ELSE ErrorAxis(autocalibrated_coords, gt, axis[1])
  /\ call' = [op |-> "estimationError", j |-> None, gt |-> gt, axis |-> axis,
              dirty |-> FALSE]
  /\ pc' = "done"
  /\ UNCHANGED <<initial_guess, autocalibrated_coords, aliased, fields, ctor,
                 sample_idx, s1vars, s2vars>>

\* the caller has the returned value and goes on: the solver can be called
\* again
Continue ==
  /\ pc = "done"
  /\ pc' = "idle"
  /\ ret' = None
  /\ call' = NoCall
  /\ UNCHANGED <<initial_guess, autocalibrated_coords, aliased, fields, ctor,
                 sample_idx, s1vars, s2vars>>

\* ------------------------------------------------------------ specification
Next ==
  \/ \E j \in SampleIdx : StageOneCall(j)
  \/ S1PassBegin
  \/ S1Anchor
  \/ S1Test
  \/ S1LoopExit
  \/ \E j \in SampleIdx : StageTwoCall(j)
  \/ S2Eval
  \/ S2Return
  \/ \E gt \in GroundTruths, axis \in AxisArg : EstimationError(gt, axis)
  \/ Continue

Spec == Init /\ [][Next]_vars

SpecWide == InitWide /\ [][Next]_vars

\* ================================================================== claims
InStageOne == pc \in {"s1_loop", "s1_anchor"}
ReturnedFrom(op) == pc = "done" /\ call.op = op
\* the last step of the loop over the anchors handled non-fixed anchor a
Handled(a) ==
  /\ pc = "s1_anchor"
  /\ step.anchor = Some(a)
  /\ ~step.skipped

\* stageOne as a function of its inputs: one pass over the anchors from
\* anchor i on, and the passes from pass t on
RECURSIVE PassFrom(_, _, _, _, _, _)
PassFrom(coords, old, S, fixed, min_anchors, a) ==
  IF a = Cardinality(DOMAIN coords) THEN coords
  ELSE PassFrom(AnchorStep(coords, old, S, fixed, min_anchors, a),
                old, S, fixed, min_anchors, a + 1)

RECURSIVE PassesFrom(_, _, _, _, _)
PassesFrom(coords, S, fixed, min_anchors, t) ==
  IF t >= max_iters THEN coords
  ELSE LET new == PassFrom(coords, coords, S, fixed, min_anchors, 0)
       IN  IF NormBelow(new, coords, convergence_thresh) THEN new
           ELSE PassesFrom(new, S, fixed, min_anchors, t + 1)

StageOneResult(guess, cube, fixed, min_anchors, j) ==
  PassesFrom(guess, StageOneMatrix(cube, j), fixed, min_anchors, 0)

\* C2: while stageOne runs (at its start, after every anchor of every pass)
\* and when it has returned, the estimate of every fixed anchor is the
\* initial guess the solver was constructed with.
C2_FixedAnchorsKeepGuess ==
  (InStageOne \/ ReturnedFrom("stageOne")) =>
    \A a \in Anchors :
      fixed_anchors[a] => autocalibrated_coords[a] = ctor.guess[a]

\* C2 witness: inside a pass an anchor has just been re-solved and moved,
\* while some fixed anchor has enough gathered anchors to be solved itself.
C2_Witness ==
  /\ pc = "s1_anchor"
  /\ step.solved
  /\ autocalibrated_coords # ctor.guess
  /\ \E a \in Anchors :
       /\ fixed_anchors[a]
       /\ Len(Gather(samples_ik, a)) >= LSq_min_anchors
       /\ a < i

\* C8: when a non-fixed anchor a has been handled, the coordinate gathered
\* for an anchor k < a that was re-solved earlier in the same pass is the
\* value written in this pass, the coordinate gathered for any other anchor
\* is its value at the beginning of the pass (the value the previous pass
\* left); a re-solved anchor holds the solution at once, and the anchors are
\* handled in increasing order.
C8_GaussSeidel ==
  \A a \in Anchors :
    Handled(a) =>
      /\ i = a + 1
      /\ \A p \in 1 .. Len(nbr_idx) :
           LET k == nbr_idx[p]
           IN  nbr_coords[p] =
                 IF k < a /\ k \in DOMAIN written THEN written[k]
                 ELSE anchors_coords_old[k]
      /\ step.solved =>
           /\ autocalibrated_coords[a] = coordinatesOpt(nbr_coords, nbr_ranges)
           /\ a \in DOMAIN written
           /\ written[a] = autocalibrated_coords[a]
      /\ \A k \in Anchors : k > a => k \notin DOMAIN written

\* C8 witness: anchor a is re-solved from an anchor k < a that this pass has
\* already moved and from an anchor k > a, in the second pass.
C8_Witness ==
  \E a \in Anchors :
    /\ Handled(a)
    /\ step.solved
    /\ iter = 2
    /\ \E p \in 1 .. Len(nbr_idx) :
         /\ nbr_idx[p] < a
         /\ nbr_idx[p] \in DOMAIN written
         /\ written[nbr_idx[p]] # anchors_coords_old[nbr_idx[p]]
    /\ \E p \in 1 .. Len(nbr_idx) : nbr_idx[p] > a
    /\ \A d \in Axes : IsNum(autocalibrated_coords[a][d])

\* C10: whatever calls were made, the solver's initial guess, fixed mask and
\* sample cube are those it was constructed with, stageOne starts from that
\* initial guess, and the estimate stageOne(j) leaves is the function of the
\* constructor's arguments and j.
C10_RunsIndependent ==
  /\ initial_guess = ctor.guess
  /\ fixed_anchors = ctor.fixed
  /\ samples_ijk = ctor.samples
  /\ (pc = "s1_loop" /\ iter = 0) => autocalibrated_coords = ctor.guess
  /\ ReturnedFrom("stageOne") =>
       autocalibrated_coords =
         StageOneResult(ctor.guess, ctor.samples, ctor.fixed, LSq_min_anchors,
                        call.j)

\* C10 witness: stageOne was called on a solver whose stored estimate, left
\* by an earlier run, differed from the initial guess.
C10_Witness ==
  /\ pc = "s1_loop"
  /\ iter = 0
  /\ call.dirty

\* C1: at every evaluation of the cost function and in the array costOpt
\* returns, the row of every fixed anchor is that anchor's row of the
\* estimate passed to costOpt (the solver's estimate, which stageTwo passes
\* and leaves alone).
C1_FixedRowsPinnedToInput ==
  /\ (pc = "s2_fmin" /\ evals >= 1) =>
       \A a \in Anchors :
         fixed_anchors[a] => Theta[a] = autocalibrated_coords[a]
  /\ ReturnedFrom("stageTwo") =>
       \A a \in Anchors :
         fixed_anchors[a] => ret[a] = autocalibrated_coords[a]

\* C3: when stageTwo returns on a solver stageOne has run on, the solver's
\* stored estimate is the refined estimate stageTwo returns.
C3_StageTwoStoresRefined ==
  (ReturnedFrom("stageTwo") /\ ~aliased) => autocalibrated_coords = ret

\* the anchors k # a whose range from a is >= 0, in index order
ValidNeighbours(S, a) ==
  SelectSeq([p \in 1 .. Cardinality(DOMAIN S) |-> p - 1],
            LAMBDA k : k # a /\ RGe(S[a][k], R(0)))

\* C4: when a non-fixed anchor a has been handled, the anchors gathered are
\* exactly the anchors k # a with a range >= 0 from a; a is re-solved iff
\* there are at least LSq_min_anchors of them, and otherwise its estimate is
\* the one it had at the beginning of the pass.
C4_NeighboursExcludeSelf ==
  \A a \in Anchors :
    Handled(a) =>
      /\ nbr_idx = ValidNeighbours(samples_ik, a)
      /\ step.solved <=>
           Len(ValidNeighbours(samples_ik, a)) >= LSq_min_anchors
      /\ ~step.solved => autocalibrated_coords[a] = anchors_coords_old[a]

\* the sum over the ordered pairs (a, b), a # b, with a range >= 0 of
\* (squared distance - squared range) squared
PairTerm(Th, ranges, a, b) ==
  IF a = b \/ RLt(ranges[a][b], R(0)) THEN R(0)
  ELSE RSq(RSub(SqDist(Th[a], Th[b]), RSq(ranges[a][b])))

PairCost(Th, ranges) ==
  LET n == Cardinality(DOMAIN Th)
  IN  SumTo([a \in DOMAIN Th |->
              SumTo([b \in DOMAIN Th |-> PairTerm(Th, ranges, a, b)], n)], n)

\* C5: the cost of every evaluated coordinate array is the sum, over the
\* ordered pairs of distinct anchors with a range >= 0, of (squared distance
\* minus squared range) squared, pairs of anchors with identical coordinates
\* included.
C5_CostSumsAllValidPairs ==
  (pc = "s2_fmin" /\ evals >= 1) => cost = PairCost(Theta, ranges_ik)

\* C6: with a sample index m, the range matrix handed to the optimizer keeps
\* cube[i, m, k] when it lies between the lower and the upper percentile of
\* the samples of pair (i, k), and is -1 otherwise, the configured 0.25 /
\* 0.75 (0.1 / 0.9 in main) being the 25th / 75th (10th / 90th) percentile.
C6_FilterBoundsArePercentiles ==
  (pc = "s2_fmin" /\ sample_idx # None) =>
    ranges_ik = FilteredSlice(samples_ijk, sample_idx[1],
                              RMul(R(100), percentiles.lower),
                              RMul(R(100), percentiles.upper))

\* C7: estimationError leaves the estimate alone; without an axis it returns
\* N values, value a the distance between the estimate of anchor a and the
\* ground truth of anchor a; with an axis, value a is the estimate of anchor
\* a minus its ground truth on that axis.
C7_ErrorPerAnchor ==
  [][(pc = "idle" /\ pc' = "done" /\ call'.op = "estimationError") =>
       /\ autocalibrated_coords' = autocalibrated_coords
       /\ ret'.shape = <<N>>
       /\ \A a \in Anchors :
            ret'.val[a] =
              IF call'.axis = None
              THEN Sqrt(SqDist(autocalibrated_coords[a], call'.gt[a]))
              ELSE RSub(autocalibrated_coords[a][call'.axis[1]],
                        call'.gt[a][call'.axis[1]])]_vars

\* no non-fixed anchor has LSq_min_anchors neighbours with a range >= 0
NoAnchorSolvable ==
  \A a \in Anchors :
    fixed_anchors[a] \/ Len(ValidNeighbours(samples_ik, a)) < LSq_min_anchors

\* a bound on the steps stageOne still takes
StepsLeft ==
  IF pc = "s1_loop" THEN (max_iters - iter) * (N + 2) + 1
  ELSE IF pc = "s1_anchor" THEN (max_iters - iter) * (N + 2) + (N - i) + 2
  ELSE 0

\* C9: stageOne terminates (every step lowers a bound that never goes below
\* zero), begins at most max_iters passes, returns after a pass exactly when
\* the norm of (estimate - snapshot) is below convergence_thresh, and when
\* no non-fixed anchor has enough neighbours it returns after one pass with
\* the initial guess as its estimate.
C9_StageOneTerminates ==
  [][InStageOne =>
       /\ StepsLeft' < StepsLeft
       /\ StepsLeft' >= 0
       /\ iter' <= max_iters \/ pc' = "done"
       /\ (pc = "s1_anchor" /\ i = N) =>
            (pc' = "done" <=>
               RLt(DiffSq(autocalibrated_coords, anchors_coords_old),
                   RSq(convergence_thresh)))
       /\ (pc' = "done" /\ NoAnchorSolvable) =>
            /\ iter = 1
            /\ autocalibrated_coords' = ctor.guess]_vars

====
